---- MODULE Spec2Model ----
(***************************************************************************)
(* A model of faasmctl's batch client: faasmctl/util/batch.py (the map     *)
(* serializer and the two request builders) and faasmctl/util/invoke.py    *)
(* (invoke_wasm, invoke_and_await, invoke_wasm_without_wait,               *)
(* invoke_without_wait, query_result).                                     *)
(*                                                                         *)
(* One call runs at a time.  The coordinator is the environment: every     *)
(* POST is answered with any response of Responses.  A call is cut into    *)
(* steps at its blocking POSTs: each action is one POST together with all  *)
(* the code that runs up to the next POST or to the end of the call.       *)
(***************************************************************************)
EXTENDS Integers, Sequences, FiniteSets, TLC

VARIABLES
    pc,                     \* where the call stands: idle, preload, admit, poll, done
    call,                   \* the entry point that was called, with its arguments
    req,                    \* the BatchExecuteRequest object (mutable protobuf)
    msg,                    \* the EXECUTE_BATCH envelope built from req
    expected_num_messages,  \* invoke_wasm's local of that name
    i,                      \* index of the next iteration of the admission for-loop
    response,               \* the local `response`: the last response received
    ber_status,             \* the local `ber_status`, Unbound until first assigned
    json_msg,               \* the EXECUTE_BATCH_STATUS envelope polled with
    net,                    \* everything the call did on the wire and every sleep, in order
    ret,                    \* how the call ended: a returned value or a raised exception
    map_data,               \* serialize_map's argument
    buffer                  \* serialize_map's result

vars == <<pc, call, req, msg, expected_num_messages, i, response, ber_status,
          json_msg, net, ret, map_data, buffer>>

(***************************************************************************)
(* Bounds of the model.                                                    *)
(***************************************************************************)
MaxMessages == 2    \* num_messages ranges over 0..MaxMessages
MaxWorld == 2       \* mpi_world_size and host-list lengths range over 1..MaxWorld
MaxPolls == 2       \* status queries one call may send before the model stops it
MaxChained == 2     \* entries in a chained_id_list
MaxPairs == 2       \* pairs in a map handed to serialize_map

(***************************************************************************)
(* Program constants.  Durations are in tenths of a second.                *)
(***************************************************************************)
num_retries_one_short == 10 - 1
num_retries == 10                \* invoke_and_await
sleep_period_secs == 5           \* 0.5 s, both admission loops
poll_period == 20                \* 2 s, invoke_and_await
num_retries_one_more == 100 + 1
num_retries_without_wait == 100  \* invoke_without_wait
query_poll_period == 5           \* 0.5 s, query_result

NoHosts == "No available hosts"
NotRegistered == "App not registered in results"
OtherError == "Internal error"

\* Python's None, and a local that has not been assigned yet.
None == <<>>
Some(x) == <<x>>
Unbound == [unbound |-> TRUE]
IsBound(x) == "unbound" \notin DOMAIN x

(***************************************************************************)
(* Protobuf messages and their JSON form.                                  *)
(***************************************************************************)
DefaultMessage ==
    [appId |-> 0, user |-> "", function |-> "", mpiWorldSize |-> 0, groupIdx |-> 0,
     executedHost |-> "", inputData |-> <<>>, chainedId |-> 0]

DefaultRequest == [appId |-> 0, user |-> "", function |-> "", messages |-> <<>>]

DefaultStatus == [appId |-> 0, finished |-> FALSE, expectedNumMessages |-> 0]

\* proto3 JSON printing leaves out every field that holds its default value.
OmitDefaults(m, dflt) == [f \in {g \in DOMAIN m : m[g] # dflt[g]} |-> m[f]]

\* JSON parsing with ignore_unknown_fields: fields present are set, others default.
FillDefaults(j, dflt) == [f \in DOMAIN dflt |-> IF f \in DOMAIN j THEN j[f] ELSE dflt[f]]

\* MessageToJson(req, indent=None) of a BatchExecuteRequest
RequestToJson(r) ==
    OmitDefaults(
        [r EXCEPT !.messages =
            [k \in 1..Len(r.messages) |-> OmitDefaults(r.messages[k], DefaultMessage)]],
        DefaultRequest)

\* MessageToJson(ber_status, indent=None) of a BatchExecuteRequestStatus
StatusToJson(s) == OmitDefaults(s, DefaultStatus)

\* A response body: plain text, or the text of a JSON object.
Text(s) == [kind |-> "text", val |-> s]
Json(j) == [kind |-> "json", val |-> j]
TextIs(body, s) == body.kind = "text" /\ body.val = s

\* Parse(response.text, BatchExecuteRequestStatus(), True): whether it raises
\* ParseError (the text is no JSON object), and the status it returns otherwise.
ParseFails(body) == body.kind # "json"
Parse(body) == FillDefaults(body.val, DefaultStatus)

\* ParseDict(req_dict, BatchExecuteRequest())
ParseDict(req_dict) == FillDefaults(req_dict, DefaultRequest)

\* faasmctl.util.message.message_factory: a Message copied from msg_dict and
\* bound to app_id.
message_factory(msg_dict, app_id) ==
    [DefaultMessage EXCEPT
        !.appId = app_id,
        !.user = msg_dict.user,
        !.function = msg_dict.function,
        !.mpiWorldSize = IF "mpi_world_size" \in DOMAIN msg_dict
                         THEN msg_dict.mpi_world_size ELSE 0]

\* faasmctl.util.planner.prepare_planner_msg: the envelope of one wire operation.
prepare_planner_msg(op, payload) == [op |-> op, payload |-> payload]

(***************************************************************************)
(* faasmctl/util/batch.py: the map serializer.                             *)
(*                                                                         *)
(* A Python str is a sequence of code points; bytes are numbers 0..255.    *)
(* A dict is its sequence of <<key, value>> pairs in iteration order, the  *)
(* keys all different.                                                     *)
(***************************************************************************)
\* str.encode('utf-8') of one code point
utf8_char(c) ==
    IF c < 128 THEN <<c>>
    ELSE IF c < 2048 THEN <<192 + (c \div 64), 128 + (c % 64)>>
    ELSE IF c < 65536 THEN
        <<224 + (c \div 4096), 128 + ((c \div 64) % 64), 128 + (c % 64)>>
    ELSE <<240 + (c \div 262144), 128 + ((c \div 4096) % 64),
           128 + ((c \div 64) % 64), 128 + (c % 64)>>

\* string.encode('utf-8')
RECURSIVE encode_utf8(_)
encode_utf8(string) ==
    IF string = <<>> THEN <<>>
    ELSE utf8_char(Head(string)) \o encode_utf8(Tail(string))

\* struct.pack('I', n): four bytes in the byte order of the machine
pack_I(order, n) ==
    LET le == <<n % 256, (n \div 256) % 256, (n \div 65536) % 256,
                (n \div 16777216) % 256>>
    IN  IF order = "little" THEN le ELSE <<le[4], le[3], le[2], le[1]>>

\* serialize_string(buffer, string): the buffer after the call
serialize_string(order, buf, string) ==
    (buf \o pack_I(order, Len(string))) \o encode_utf8(string)

RECURSIVE serialize_items(_, _, _)
serialize_items(order, buf, items) ==
    IF items = <<>> THEN buf
    ELSE serialize_items(
            order,
            serialize_string(order, serialize_string(order, buf, Head(items)[1]),
                             Head(items)[2]),
            Tail(items))

\* serialize_map(map_data)
serialize_map(order, m) == serialize_items(order, pack_I(order, Len(m)), m)

(***************************************************************************)
(* faasmctl/util/batch.py: the request builders.  A builder's outcome is   *)
(* the request it returns or the exception it raises.                      *)
(***************************************************************************)
Return(v) == [kind |-> "return", val |-> v]
Raise(e) == [kind |-> "raise", exc |-> e]
NoResult == [kind |-> "none"]

\* batch_exec_factory(req_dict, msg_dict, num_messages), gid being the value
\* generate_gid() returns
batch_exec_factory(req_dict, msg_dict, num_messages, gid) ==
    [ParseDict(req_dict) EXCEPT
        !.appId = gid,
        !.messages = [k \in 1..num_messages |-> message_factory(msg_dict, gid)]]

\* The builder without its check of chained_id_list's length
input_factory_unchecked_chain(order, req_dict, app_id, msg_dict, num_messages, input_list, chained_id_list) ==
    IF input_list # None /\ Len(input_list[1]) # num_messages
    THEN Raise("AssertionError")
    ELSE IF num_messages > 0 /\ chained_id_list = None
    THEN Raise("TypeError")
    ELSE IF chained_id_list # None /\ Len(chained_id_list[1]) < num_messages
    THEN Raise("IndexError")
    ELSE Return(
        [ParseDict(req_dict) EXCEPT
            !.appId = app_id,
            !.messages = [k \in 1..num_messages |->
                [message_factory(msg_dict, app_id) EXCEPT
                    !.inputData = IF input_list # None
                                  THEN serialize_map(order, input_list[1][k])
                                  ELSE <<>>,
                    !.chainedId = chained_id_list[1][k]]]])

\* batch_exec_input_factory(req_dict, app_id, msg_dict, num_messages,
\*                          input_list, chained_id_list)
batch_exec_input_factory(order, req_dict, app_id, msg_dict, num_messages, input_list, chained_id_list) ==
    IF input_list # None /\ Len(input_list[1]) # num_messages
    THEN Raise("AssertionError")
    ELSE IF chained_id_list # None /\ Len(chained_id_list[1]) # num_messages
    THEN Raise("AssertionError")
    ELSE IF num_messages > 0 /\ chained_id_list = None
    THEN Raise("TypeError")    \* chained_id_list[0] with chained_id_list None
    ELSE Return(
        [ParseDict(req_dict) EXCEPT
            !.appId = app_id,
            !.messages = [k \in 1..num_messages |->
                [message_factory(msg_dict, app_id) EXCEPT
                    !.inputData = IF input_list # None
                                  THEN serialize_map(order, input_list[1][k])
                                  ELSE <<>>,
                    !.chainedId = chained_id_list[1][k]]]])

(***************************************************************************)
(* The inputs the model draws from.                                        *)
(***************************************************************************)
ByteOrders == {"little", "big"}
\* "", "a", the euro sign (three bytes in UTF-8), and e-acute (two bytes) then "a"
Strings == {<<>>, <<97>>, <<8364>>, <<233, 97>>}
Maps == {m \in UNION {[1..n -> Strings \X Strings] : n \in 0..MaxPairs} :
            \A a, b \in 1..Len(m) : a # b => m[a][1] # m[b][1]}

\* What the coordinator may answer: HTTP 200 with a status as JSON, or another
\* code with a plain text.
ServerStatuses ==
    {[appId |-> 42, finished |-> f, expectedNumMessages |-> 0] : f \in BOOLEAN} \cup
    {[appId |-> 43, finished |-> f, expectedNumMessages |-> 9] : f \in BOOLEAN}
ErrorCodes == {500, 503}
ErrorTexts == {NoHosts, NotRegistered, OtherError}
Responses ==
    {[status_code |-> 200, text |-> Json(StatusToJson(s))] : s \in ServerStatuses} \cup
    {[status_code |-> c, text |-> Text(t)] : c \in ErrorCodes, t \in ErrorTexts}

Gids == {7}             \* values of generate_gid()
AppIds == {42, 43}      \* app ids a caller passes in
MsgDicts ==
    {[user |-> "alice", function |-> "work"]} \cup
    {[user |-> "alice", function |-> "work", mpi_world_size |-> n] : n \in 1..MaxWorld}
HostLists == {[k \in 1..n |-> IF k % 2 = 1 THEN "hostA" ELSE "hostB"] : n \in 1..MaxWorld}
InputMaps == {<<>>, << <<<<97>>, <<8364>>>> >>}       \* {} and {"a": euro sign}
InputLists == UNION {[1..n -> InputMaps] : n \in 0..MaxMessages}
ChainedLists == UNION {[1..n -> {5, 6}] : n \in 0..MaxChained}

(***************************************************************************)
(* faasmctl/util/invoke.py.                                                *)
(*                                                                         *)
(* A response is [status_code, text].  net records, in order, every POST   *)
(* with the response it got and every sleep.                               *)
(***************************************************************************)
Post(envelope, r) ==
    [ev |-> "post", op |-> envelope.op, payload |-> envelope.payload, resp |-> r]
Sleep(t) == [ev |-> "sleep", secs |-> t]

Finish(outcome) == pc' = "done" /\ ret' = outcome

\* invoke_wasm: the number of messages to expect in the result
expected_messages(msg_dict, num_messages) ==
    IF "mpi_world_size" \in DOMAIN msg_dict
    THEN msg_dict.mpi_world_size
    ELSE num_messages

\* invoke_wasm: the padding loop, `for _ in range(len(req.messages), expected)`
pad_messages(r, msg_dict, expected) ==
    [r EXCEPT !.messages =
        r.messages \o [k \in 1..(expected - Len(r.messages)) |->
                          message_factory(msg_dict, r.appId)]]

\* invoke_wasm: the placement loop over range(len(req.messages)).  Message
\* group_idx (0-based) is message group_idx + 1 here.  host_list[group_idx]
\* raises IndexError at group_idx = len(host_list), after groupIdx was set.
placement_raises(r, host_list) == Len(r.messages) > Len(host_list)

place_messages(r, host_list) ==
    [r EXCEPT !.messages = [k \in 1..Len(r.messages) |->
        IF k <= Len(host_list)
        THEN [r.messages[k] EXCEPT !.groupIdx = k - 1, !.executedHost = host_list[k]]
        ELSE IF k = Len(host_list) + 1
        THEN [r.messages[k] EXCEPT !.groupIdx = k - 1]
        ELSE r.messages[k]]]

submitted_request_after_placement(built, placed) == placed

\* invoke_wasm: the request the EXECUTE_BATCH envelope is serialized from.  msg
\* is built on line 48 from req as batch_exec_factory returned it; the padding
\* and placement of lines 67-75 change req afterwards.
submitted_request(built, placed) == built

\* invoke_wasm(msg_dict, num_messages, host_list=host_list), up to its first
\* POST; req_dict, dict_out and ini_file keep their defaults.
invoke_wasm(msg_dict, num_messages, host_list, gid) ==
    LET req_dict == [user |-> msg_dict.user, function |-> msg_dict.function]
        built == batch_exec_factory(req_dict, msg_dict, num_messages, gid)
        expected == expected_messages(msg_dict, num_messages)
        padded == pad_messages(built, msg_dict, expected)
        placed == IF host_list = None \/ Len(host_list[1]) # expected
                  THEN built
                  ELSE place_messages(padded, host_list[1])
    IN  /\ pc = "idle"
        /\ call' = [fn |-> "invoke_wasm", msg_dict |-> msg_dict,
                    num_messages |-> num_messages, host_list |-> host_list]
        /\ msg' = prepare_planner_msg("EXECUTE_BATCH",
                        RequestToJson(submitted_request(built, placed)))
        /\ expected_num_messages' = expected
        /\ IF host_list = None
           THEN /\ req' = built
                /\ pc' = "admit"
                /\ ret' = ret
           ELSE IF Len(host_list[1]) # expected
           THEN /\ req' = built
                /\ Finish(Raise("AssertionError"))
           ELSE /\ req' = placed
                /\ IF placement_raises(padded, host_list[1])
                   THEN Finish(Raise("IndexError"))
                   ELSE pc' = "preload" /\ ret' = ret
        /\ UNCHANGED <<i, response, ber_status, json_msg, net, map_data, buffer>>

preload_never_rejected(r) == FALSE

\* invoke_wasm: the preload response that makes it raise RuntimeError
preload_rejected(r) == r.status_code # 200

\* invoke_wasm: the PRELOAD_SCHEDULING_DECISION POST and the check of its response
invoke_wasm_preload ==
    /\ pc = "preload"
    /\ \E r \in Responses :
        /\ net' = Append(net,
                Post(prepare_planner_msg("PRELOAD_SCHEDULING_DECISION",
                                         RequestToJson(req)), r))
        /\ IF preload_rejected(r)
           THEN Finish(Raise("RuntimeError"))
           ELSE pc' = "admit" /\ ret' = ret
    /\ UNCHANGED <<call, req, msg, expected_num_messages, i, response, ber_status,
                   json_msg, map_data, buffer>>

\* Both admission loops: the response that makes the loop sleep and `continue`
admission_retry(r) == r.status_code = 500 /\ TextIs(r.text, NoHosts)

admitted_status_as_sent(r, expected) == Parse(r.text)

\* invoke_and_await: the status built from the admission response
admitted_status(r, expected) ==
    [Parse(r.text) EXCEPT !.expectedNumMessages = expected]

poll_never_breaks_on_error(r) ==
    IF r.status_code # 200
    THEN FALSE
    ELSE Parse(r.text).finished

poll_breaks_on_any_error(r) ==
    IF r.status_code # 200
    THEN TRUE
    ELSE Parse(r.text).finished

poll_status_cleared_on_error(r, cur) ==
    IF r.status_code # 200 THEN DefaultStatus ELSE Parse(r.text)

poll_breaks_on_any_ok(r) ==
    IF r.status_code # 200
    THEN ~TextIs(r.text, NotRegistered)
    ELSE TRUE

\* Both poll loops: whether the loop `break`s on this response
poll_breaks(r) ==
    IF r.status_code # 200
    THEN ~TextIs(r.text, NotRegistered)
    ELSE Parse(r.text).finished

\* Both poll loops: ber_status after this response, cur being its value before
poll_status(r, cur) == IF r.status_code # 200 THEN cur ELSE Parse(r.text)

\* invoke_and_await: one iteration of the admission for-loop and, when the loop
\* ends, the code up to the poll loop
invoke_and_await_admit ==
    /\ pc = "admit"
    /\ call.fn = "invoke_wasm"
    /\ i < num_retries
    /\ \E r \in Responses :
        LET retry == admission_retry(r)
            posted == Append(net, Post(msg, r))
            status == admitted_status(r, expected_num_messages)
        IN  /\ response' = r
            /\ net' = IF retry THEN Append(posted, Sleep(sleep_period_secs)) ELSE posted
            /\ i' = IF retry THEN i + 1 ELSE i
            /\ IF retry /\ i + 1 < num_retries
               THEN /\ pc' = "admit"
                    /\ UNCHANGED <<ber_status, json_msg, ret>>
               ELSE IF ParseFails(r.text)
               THEN /\ Finish(Raise("ParseError"))
                    /\ UNCHANGED <<ber_status, json_msg>>
               ELSE /\ ber_status' = status
                    /\ json_msg' = prepare_planner_msg("EXECUTE_BATCH_STATUS",
                                                       StatusToJson(status))
                    /\ pc' = "poll"
                    /\ ret' = ret
    /\ UNCHANGED <<call, req, msg, expected_num_messages, map_data, buffer>>

StatusQueries == SelectSeq(net, LAMBDA e : e.ev = "post" /\ e.op = "EXECUTE_BATCH_STATUS")

\* invoke_and_await: one iteration of the poll loop and, on break, the return
invoke_and_await_poll ==
    /\ pc = "poll"
    /\ call.fn = "invoke_wasm"
    /\ Len(StatusQueries) < MaxPolls
    /\ \E r \in Responses :
        LET status == poll_status(r, ber_status)
        IN  /\ response' = r
            /\ net' = Append(Append(net, Sleep(poll_period)), Post(json_msg, r))
            /\ ber_status' = status
            /\ IF poll_breaks(r)
               THEN Finish(Return(status))
               ELSE pc' = "poll" /\ ret' = ret
    /\ UNCHANGED <<call, req, msg, expected_num_messages, i, json_msg, map_data, buffer>>

\* invoke_wasm_without_wait(app_id, msg_dict, num_messages, input_list=input_list),
\* up to its first POST
invoke_wasm_without_wait(order, app_id, msg_dict, num_messages, input_list) ==
    LET req_dict == [user |-> msg_dict.user, function |-> msg_dict.function]
        built == batch_exec_input_factory(order, req_dict, app_id, msg_dict,
                                          num_messages, input_list, None)
    IN  /\ pc = "idle"
        /\ call' = [fn |-> "invoke_wasm_without_wait", byteorder |-> order,
                    app_id |-> app_id, msg_dict |-> msg_dict,
                    num_messages |-> num_messages, input_list |-> input_list]
        /\ IF built.kind = "raise"
           THEN /\ Finish(built)
                /\ UNCHANGED <<req, msg>>
           ELSE /\ req' = built.val
                /\ msg' = prepare_planner_msg("EXECUTE_BATCH", RequestToJson(built.val))
                /\ pc' = "admit"
                /\ ret' = ret
        /\ UNCHANGED <<expected_num_messages, i, response, ber_status, json_msg, net,
                       map_data, buffer>>

\* invoke_without_wait(url, json_msg) called on its own
invoke_without_wait(envelope) ==
    /\ pc = "idle"
    /\ call' = [fn |-> "invoke_without_wait"]
    /\ msg' = envelope
    /\ pc' = "admit"
    /\ UNCHANGED <<req, expected_num_messages, i, response, ber_status, json_msg, net,
                   ret, map_data, buffer>>

\* invoke_without_wait: one iteration of the admission for-loop and, when the
\* loop ends, the return (of req.appId through invoke_wasm_without_wait)
invoke_without_wait_admit ==
    /\ pc = "admit"
    /\ call.fn \in {"invoke_wasm_without_wait", "invoke_without_wait"}
    /\ i < num_retries_without_wait
    /\ \E r \in Responses :
        LET retry == admission_retry(r)
            posted == Append(net, Post(msg, r))
        IN  /\ response' = r
            /\ net' = IF retry THEN Append(posted, Sleep(sleep_period_secs)) ELSE posted
            /\ i' = IF retry THEN i + 1 ELSE i
            /\ IF retry /\ i + 1 < num_retries_without_wait
               THEN pc' = "admit" /\ ret' = ret
               ELSE IF call.fn = "invoke_wasm_without_wait"
               THEN Finish(Return(req.appId))
               ELSE Finish(Return(0))
    /\ UNCHANGED <<call, req, msg, expected_num_messages, ber_status, json_msg,
                   map_data, buffer>>

\* query_result(app_id, url), up to its poll loop
query_result(app_id) ==
    /\ pc = "idle"
    /\ call' = [fn |-> "query_result", app_id |-> app_id]
    /\ pc' = "poll"
    /\ UNCHANGED <<req, msg, expected_num_messages, i, response, ber_status, json_msg,
                   net, ret, map_data, buffer>>

\* query_result: one iteration of the poll loop and, on break, the return, which
\* raises UnboundLocalError when ber_status was never assigned
query_result_poll ==
    /\ pc = "poll"
    /\ call.fn = "query_result"
    /\ Len(StatusQueries) < MaxPolls
    /\ \E r \in Responses :
        LET query == prepare_planner_msg("EXECUTE_BATCH_STATUS",
                        StatusToJson(FillDefaults([appId |-> call.app_id], DefaultStatus)))
            status == poll_status(r, ber_status)
        IN  /\ json_msg' = query
            /\ response' = r
            /\ net' = Append(Append(net, Sleep(query_poll_period)), Post(query, r))
            /\ ber_status' = status
            /\ IF poll_breaks(r)
               THEN IF IsBound(status)
                    THEN Finish(Return(status))
                    ELSE Finish(Raise("UnboundLocalError"))
               ELSE pc' = "poll" /\ ret' = ret
    /\ UNCHANGED <<call, req, msg, expected_num_messages, i, map_data, buffer>>

(***************************************************************************)
(* The serializer on its own: serialize_map applied to every map of Maps.  *)
(***************************************************************************)
InitIdle ==
    /\ pc = "idle"
    /\ call = [fn |-> "none"]
    /\ req = DefaultRequest
    /\ msg = Unbound
    /\ expected_num_messages = 0
    /\ i = 0
    /\ response = Unbound
    /\ ber_status = Unbound
    /\ json_msg = Unbound
    /\ net = <<>>
    /\ ret = NoResult
    /\ map_data = <<>>
    /\ buffer = <<>>

call_serialize_map(order, m) ==
    /\ pc = "idle"
    /\ pc' = "done"
    /\ call' = [fn |-> "serialize_map", byteorder |-> order]
    /\ map_data' = m
    /\ buffer' = serialize_map(order, m)
    /\ ret' = Return(0)
    /\ UNCHANGED <<req, msg, expected_num_messages, i, response, ber_status,
                   json_msg, net>>

NextSer == \E order \in ByteOrders, m \in Maps : call_serialize_map(order, m)

SpecSer == InitIdle /\ [][NextSer]_vars

(***************************************************************************)
(* The bound request builder: batch_exec_input_factory called on its own,  *)
(* and through invoke_wasm_without_wait.                                   *)
(***************************************************************************)
call_batch_exec_input_factory(order, app_id, msg_dict, num_messages, input_list, chained_id_list) ==
    LET req_dict == [user |-> msg_dict.user, function |-> msg_dict.function]
        built == batch_exec_input_factory(order, req_dict, app_id, msg_dict,
                                          num_messages, input_list, chained_id_list)
    IN  /\ pc = "idle"
        /\ call' = [fn |-> "batch_exec_input_factory", byteorder |-> order,
                    app_id |-> app_id, msg_dict |-> msg_dict,
                    num_messages |-> num_messages, input_list |-> input_list,
                    chained_id_list |-> chained_id_list]
        /\ Finish(built)
        /\ UNCHANGED <<req, msg, expected_num_messages, i, response, ber_status,
                       json_msg, net, map_data, buffer>>

NextBuild ==
    \/ \E order \in ByteOrders, a \in AppIds, md \in MsgDicts, n \in 0..MaxMessages,
          il \in {None} \cup {Some(l) : l \in InputLists},
          cl \in {None} \cup {Some(l) : l \in ChainedLists} :
            call_batch_exec_input_factory(order, a, md, n, il, cl)
    \/ \E order \in ByteOrders, a \in AppIds, md \in MsgDicts, n \in 0..MaxMessages,
          il \in {None} \cup {Some(l) : l \in InputLists} :
            invoke_wasm_without_wait(order, a, md, n, il)
    \/ invoke_without_wait_admit

SpecBuild == InitIdle /\ [][NextBuild]_vars

(***************************************************************************)
(* The client: one call of an entry point of invoke.py against a           *)
(* coordinator that answers as it likes.                                   *)
(***************************************************************************)
Next ==
    \/ \E md \in MsgDicts, n \in 1..MaxMessages, gid \in Gids,
          hl \in {None} \cup {Some(h) : h \in HostLists} :
            invoke_wasm(md, n, hl, gid)
    \/ invoke_wasm_preload
    \/ invoke_and_await_admit
    \/ invoke_and_await_poll
    \/ \E order \in ByteOrders, a \in AppIds, md \in MsgDicts, n \in 0..MaxMessages,
          il \in {None} \cup {Some(l) : l \in InputLists} :
            invoke_wasm_without_wait(order, a, md, n, il)
    \/ \E n \in 1..MaxMessages, gid \in Gids :
            invoke_without_wait(prepare_planner_msg("EXECUTE_BATCH",
                RequestToJson(batch_exec_factory(
                    [user |-> "alice", function |-> "work"],
                    [user |-> "alice", function |-> "work"], n, gid))))
    \/ invoke_without_wait_admit
    \/ \E a \in AppIds : query_result(a)
    \/ query_result_poll

Spec == InitIdle /\ [][Next]_vars

(***************************************************************************)
(* What the claims speak of, read off net and the call.                    *)
(***************************************************************************)
ExecPosts == SelectSeq(net, LAMBDA e : e.ev = "post" /\ e.op = "EXECUTE_BATCH")
PreloadPosts ==
    SelectSeq(net, LAMBDA e : e.ev = "post" /\ e.op = "PRELOAD_SCHEDULING_DECISION")

Waiting == call.fn = "invoke_wasm"
FireAndForget == call.fn \in {"invoke_wasm_without_wait", "invoke_without_wait"}

\* The "No available hosts" failure as the coordinator sends it: HTTP 500 with
\* that body.
NoHostsFailure(r) == r.status_code = 500 /\ TextIs(r.text, NoHosts)

\* k answers so far, every one of them the "No available hosts" failure
AllRefused(posts) == \A k \in 1..Len(posts) : NoHostsFailure(posts[k].resp)

\* The first Len - 1 answers refused, the last one HTTP 200
RefusedThenAdmitted(posts) ==
    /\ Len(posts) >= 1
    /\ \A k \in 1..(Len(posts) - 1) : NoHostsFailure(posts[k].resp)
    /\ posts[Len(posts)].resp.status_code = 200

UnfinishedOk(r) == r.status_code = 200 /\ ~Parse(r.text).finished
FinishedOk(r) == r.status_code = 200 /\ Parse(r.text).finished

\* C1: whenever the waiting submission returns a BatchStatus, its
\* expectedNumMessages is the value the client computed (mpi_world_size of the
\* template if present, else num_messages), whatever the coordinator sent.
C1_ReturnedExpectedIsClients ==
    (Waiting /\ pc = "done" /\ ret.kind = "return")
        => ret.val.expectedNumMessages =
               expected_messages(call.msg_dict, call.num_messages)

\* C2: in the waiting submission, once admission has succeeded, as long as every
\* status answer so far is HTTP 200 with finished=false the call is still
\* polling; and when n such answers are followed by HTTP 200 with finished=true,
\* the call has ended, that (n+1)-th query is the last thing it did on the wire,
\* and it returned the status parsed from that answer.
C2_PollsUntilFinished ==
    LET q == StatusQueries
        n == Len(q) - 1
    IN  (Waiting /\ RefusedThenAdmitted(ExecPosts)) =>
            /\ (\A k \in 1..Len(q) : UnfinishedOk(q[k].resp))
                    => pc = "poll" /\ ret = NoResult
            /\ (/\ Len(q) >= 1
                /\ \A k \in 1..n : UnfinishedOk(q[k].resp)
                /\ FinishedOk(q[n + 1].resp))
                    => /\ pc = "done"
                       /\ net[Len(net)] = q[n + 1]
                       /\ ret = Return(Parse(q[n + 1].resp.text))

C2_Witness ==
    /\ Waiting /\ pc = "done"
    /\ Len(StatusQueries) = 2
    /\ UnfinishedOk(StatusQueries[1].resp)
    /\ FinishedOk(StatusQueries[2].resp)
    /\ ret = Return(Parse(StatusQueries[2].resp.text))

\* The EXECUTE_BATCH POSTs follow one another from the first one on with exactly
\* one sleep of the backoff period (0.5 s) between each two and nothing else:
\* POST j is the event 2 (j - 1) places after the first POST, and between it and
\* the next POST lies that sleep.
BackoffBetweenPosts ==
    LET e == ExecPosts
        first == Len(PreloadPosts) + 1
    IN  \A j \in 1..Len(e) :
            /\ first + 2 * (j - 1) <= Len(net)
            /\ net[first + 2 * (j - 1)] = e[j]
            /\ j < Len(e) => net[first + 2 * j - 1] = Sleep(5)

\* C3: while the first k EXECUTE_BATCH POSTs of a call have all been refused
\* with "No available hosts" and k is below the maximum (10 waiting, 100
\* fire-and-forget), the call goes on to another attempt; when the next answer
\* is HTTP 200 the call has sent exactly k+1 POSTs, one backoff sleep between
\* each two, and admission has ended successfully: the waiting call polls, the
\* fire-and-forget call has returned.
C3_AdmissionRetryBound ==
    LET e == ExecPosts
        max == IF Waiting THEN 10 ELSE 100
    IN  (Waiting \/ FireAndForget) =>
            /\ (AllRefused(e) /\ 0 < Len(e) /\ Len(e) < max)
                    => pc = "admit" /\ net[Len(net)] = Sleep(5)
            /\ (RefusedThenAdmitted(e) /\ Len(e) - 1 < max) =>
                    /\ BackoffBetweenPosts
                    /\ pc # "admit"
                    /\ ~(ret.kind = "raise")
                    /\ Waiting => pc \in {"poll", "done"} /\ IsBound(ber_status)
                    /\ FireAndForget => pc = "done" /\ ret.kind = "return"

C3_Witness ==
    /\ Waiting /\ pc = "poll"
    /\ Len(ExecPosts) = 10
    /\ RefusedThenAdmitted(ExecPosts)
    /\ BackoffBetweenPosts

\* C4: no call sends more EXECUTE_BATCH POSTs than its maximum (10 waiting, 100
\* fire-and-forget); a call whose every POST is refused with "No available
\* hosts" keeps submitting until it has sent exactly that many and then stops.
C4_AdmissionExhaustionBound ==
    LET e == ExecPosts
        max == IF Waiting THEN 10 ELSE 100
    IN  (Waiting \/ FireAndForget) =>
            /\ Len(e) <= max
            /\ (AllRefused(e) /\ 0 < Len(e) /\ Len(e) < max) => pc = "admit"
            /\ (AllRefused(e) /\ Len(e) = max) => pc = "done"

C4_Witness ==
    /\ FireAndForget /\ pc = "done"
    /\ Len(ExecPosts) = 100
    /\ AllRefused(ExecPosts)

\* C5: in both entry points, when every admission attempt up to the maximum was
\* refused with "No available hosts", the call ends with a failure raised to its
\* caller, not with a normal return, and it sends no status query.
C5_ExhaustionSurfaces ==
    LET e == ExecPosts
        max == IF Waiting THEN 10 ELSE 100
    IN  ((Waiting \/ FireAndForget) /\ AllRefused(e) /\ Len(e) = max)
            => pc = "done" /\ ret.kind = "raise" /\ StatusQueries = <<>>

\* C6: the fire-and-forget submission returns normally only when its last
\* EXECUTE_BATCH POST was answered with HTTP 200.
C6_ReturnsOnlyWhenAdmitted ==
    (FireAndForget /\ pc = "done" /\ ret.kind = "return")
        => /\ Len(ExecPosts) >= 1
           /\ ExecPosts[Len(ExecPosts)].resp.status_code = 200

C7_WitnessRejected ==
    /\ Waiting /\ call.host_list # None
    /\ pc = "done" /\ ret = Raise("RuntimeError")
    /\ Len(net) = 1 /\ Len(PreloadPosts) = 1
    /\ PreloadPosts[1].resp.status_code = 503

\* C8: for every num_messages >= 1, every message template and every host list
\* whose length N is the expected message count, invoke_wasm builds a preload
\* request of exactly N messages, message i with groupIdx = i and executedHost =
\* host_list[i], and that request is what the PRELOAD_SCHEDULING_DECISION
\* carries.
C8_PlacementCorrect ==
    (/\ Waiting
     /\ call.host_list # None
     /\ Len(call.host_list[1]) = expected_messages(call.msg_dict, call.num_messages))
        => /\ ~(pc = "done" /\ PreloadPosts = <<>>)
           /\ Len(req.messages) = Len(call.host_list[1])
           /\ \A k \in 1..Len(req.messages) :
                /\ req.messages[k].groupIdx = k - 1
                /\ req.messages[k].executedHost = call.host_list[1][k]
           /\ \A k \in 1..Len(PreloadPosts) :
                PreloadPosts[k].payload = RequestToJson(req)

\* C9: batch_exec_input_factory called with an input_list or a chained_id_list
\* whose length differs from num_messages raises AssertionError and returns no
\* request; through invoke_wasm_without_wait the call ends with that error
\* before anything is sent.
C9_ArityValidation ==
    /\ (/\ call.fn = "batch_exec_input_factory"
        /\ \/ call.input_list # None /\ Len(call.input_list[1]) # call.num_messages
           \/ /\ call.chained_id_list # None
              /\ Len(call.chained_id_list[1]) # call.num_messages)
            => pc = "done" /\ ret = Raise("AssertionError")
    /\ (/\ call.fn = "invoke_wasm_without_wait"
        /\ call.input_list # None /\ Len(call.input_list[1]) # call.num_messages)
            => pc = "done" /\ ret = Raise("AssertionError") /\ net = <<>>

C9_Witness ==
    /\ call.fn = "batch_exec_input_factory"
    /\ call.input_list # None /\ Len(call.input_list[1]) = call.num_messages
    /\ call.chained_id_list # None /\ Len(call.chained_id_list[1]) > call.num_messages
    /\ ret = Raise("AssertionError")

\* The number four bytes stand for in that byte order
unpack_I(order, b) ==
    IF order = "little"
    THEN b[1] + 256 * b[2] + 65536 * b[3] + 16777216 * b[4]
    ELSE b[4] + 256 * b[3] + 65536 * b[2] + 16777216 * b[1]

\* The strings serialize_map writes, in order: key 1, value 1, key 2, ...
RECURSIVE FlatStrings(_)
FlatStrings(m) ==
    IF m = <<>> THEN <<>> ELSE <<Head(m)[1], Head(m)[2]>> \o FlatStrings(Tail(m))

\* Where the length field of string j starts in the section 4.2 layout: after
\* the pair count and after the earlier strings, each with its four-byte length
\* field and its UTF-8 bytes.
RECURSIVE FieldOffset(_, _)
FieldOffset(strs, j) ==
    IF j = 1 THEN 4
    ELSE FieldOffset(strs, j - 1) + 4 + Len(encode_utf8(strs[j - 1]))

\* C10: serialize_map's output starts with the number of pairs as a 32-bit
\* field, and every key and value is preceded by a 32-bit field holding the
\* number of bytes of its UTF-8 encoding, followed by those bytes.
C10_LengthsCountBytes ==
    (call.fn = "serialize_map" /\ pc = "done") =>
        LET strs == FlatStrings(map_data)
            total == FieldOffset(strs, Len(strs) + 1)
        IN  /\ Len(buffer) = total
            /\ unpack_I(call.byteorder, SubSeq(buffer, 1, 4)) = Len(map_data)
            /\ \A j \in 1..Len(strs) :
                LET off == FieldOffset(strs, j)
                    bytes == encode_utf8(strs[j])
                IN  /\ unpack_I(call.byteorder, SubSeq(buffer, off + 1, off + 4))
                            = Len(bytes)
                    /\ SubSeq(buffer, off + 5, off + 4 + Len(bytes)) = bytes

\* C11 reads serialize_map's output back with the inverse of the section 4.2
\* layout.  A decoder's outcome is [ok |-> FALSE] or [ok |-> TRUE, val |-> ...].
Failed == [ok |-> FALSE]
IsContinuation(b) == 128 <= b /\ b < 192

\* bytes.decode('utf-8'): the code points, or failure on a malformed sequence
RECURSIVE decode_utf8(_)
decode_utf8(bytes) ==
    IF bytes = <<>> THEN [ok |-> TRUE, val |-> <<>>]
    ELSE
        LET b == bytes[1]
            size == IF b < 128 THEN 1
                    ELSE IF 192 <= b /\ b < 224 THEN 2
                    ELSE IF 224 <= b /\ b < 240 THEN 3
                    ELSE IF 240 <= b /\ b < 248 THEN 4
                    ELSE 0
        IN  IF size = 0 \/ size > Len(bytes) THEN Failed
            ELSE IF \E k \in 2..size : ~IsContinuation(bytes[k]) THEN Failed
            ELSE
                LET point ==
                        IF size = 1 THEN b
                        ELSE IF size = 2 THEN (b - 192) * 64 + (bytes[2] - 128)
                        ELSE IF size = 3
                        THEN (b - 224) * 4096 + (bytes[2] - 128) * 64 + (bytes[3] - 128)
                        ELSE (b - 240) * 262144 + (bytes[2] - 128) * 4096
                             + (bytes[3] - 128) * 64 + (bytes[4] - 128)
                    rest == decode_utf8(SubSeq(bytes, size + 1, Len(bytes)))
                IN  IF rest.ok THEN [ok |-> TRUE, val |-> <<point>> \o rest.val]
                    ELSE Failed

\* One length-prefixed string read at offset pos: a 32-bit byte count, then
\* that many bytes of UTF-8.  val is the string, next the offset after it.
read_string(order, buf, pos) ==
    IF pos + 4 > Len(buf) THEN Failed
    ELSE
        LET n == unpack_I(order, SubSeq(buf, pos + 1, pos + 4))
        IN  IF pos + 4 + n > Len(buf) THEN Failed
            ELSE
                LET str == decode_utf8(SubSeq(buf, pos + 5, pos + 4 + n))
                IN  IF str.ok
                    THEN [ok |-> TRUE, val |-> str.val, next |-> pos + 4 + n]
                    ELSE Failed

\* count pairs read from offset pos on, appended to pairs; the whole buffer
\* must be used up.
RECURSIVE read_pairs(_, _, _, _, _)
read_pairs(order, buf, pos, count, pairs) ==
    IF count = 0
    THEN IF pos = Len(buf) THEN [ok |-> TRUE, val |-> pairs] ELSE Failed
    ELSE
        LET key == read_string(order, buf, pos)
        IN  IF ~key.ok THEN Failed
            ELSE
                LET value == read_string(order, buf, key.next)
                IN  IF ~value.ok THEN Failed
                    ELSE read_pairs(order, buf, value.next, count - 1,
                                    Append(pairs, <<key.val, value.val>>))

\* decode(bytes) of section 4.2
decode_map(order, buf) ==
    IF Len(buf) < 4 THEN Failed
    ELSE read_pairs(order, buf, 4, unpack_I(order, SubSeq(buf, 1, 4)), <<>>)

\* C11: for every mapping m, decoding serialize_map(m) with the inverse of the
\* section 4.2 layout succeeds, uses up the whole buffer and yields exactly the
\* pairs of m in their order.
C11_RoundTrip ==
    (call.fn = "serialize_map" /\ pc = "done")
        => decode_map(call.byteorder, buffer) = [ok |-> TRUE, val |-> map_data]

\* The round trip does hold for the maps whose strings are all ASCII.
C11_AsciiRoundTrip ==
    (/\ call.fn = "serialize_map" /\ pc = "done"
     /\ \A j \in 1..Len(FlatStrings(map_data)) :
            \A k \in 1..Len(FlatStrings(map_data)[j]) :
                FlatStrings(map_data)[j][k] < 128)
        => decode_map(call.byteorder, buffer) = [ok |-> TRUE, val |-> map_data]

\* C12: batch_exec_input_factory called without chained ids, with input_list
\* omitted or of length num_messages, returns a request with appId = app_id and
\* exactly num_messages messages, message k carrying serialize_map(input_list[k])
\* as inputData when inputs are given and no chainedId; invoke_wasm_without_wait,
\* which always calls it so, goes on to submit that request.
C12_BuildsWithoutChainedIds ==
    /\ (/\ call.fn = "batch_exec_input_factory"
        /\ call.chained_id_list = None
        /\ call.input_list # None => Len(call.input_list[1]) = call.num_messages)
            => /\ pc = "done" /\ ret.kind = "return"
               /\ ret.val.appId = call.app_id
               /\ Len(ret.val.messages) = call.num_messages
               /\ \A k \in 1..call.num_messages :
                    /\ ret.val.messages[k].chainedId = DefaultMessage.chainedId
                    /\ call.input_list # None =>
                            ret.val.messages[k].inputData =
                                serialize_map(call.byteorder, call.input_list[1][k])
    /\ (/\ call.fn = "invoke_wasm_without_wait"
        /\ call.input_list # None => Len(call.input_list[1]) = call.num_messages)
            => /\ ret.kind # "raise"
               /\ req.appId = call.app_id
               /\ Len(req.messages) = call.num_messages

\* With no message to build the loop body never runs and the call succeeds.
C12_EmptyBatchBuilds ==
    (/\ call.fn = "batch_exec_input_factory"
     /\ call.chained_id_list = None
     /\ call.num_messages = 0
     /\ call.input_list # None => Len(call.input_list[1]) = 0)
        => ret = Return([ParseDict([user |-> call.msg_dict.user,
                                    function |-> call.msg_dict.function])
                            EXCEPT !.appId = call.app_id])

\* The poll loops of invoke_and_await and of query_result
Polling == call.fn \in {"invoke_wasm", "query_result"}
PollSleep == IF Waiting THEN poll_period ELSE query_poll_period

\* A non-200 response with the body "App not registered in results"
NotRegisteredYet(r) == r.status_code # 200 /\ TextIs(r.text, NotRegistered)
\* A non-200 response with another body
PollFailure(r) == r.status_code # 200 /\ ~TextIs(r.text, NotRegistered)

\* The last-seen status when the poll loop starts: in the waiting submission
\* the status of the admission response with the client's expectedNumMessages,
\* in query_result none.
SeenAtStart ==
    IF Waiting
    THEN [Parse(ExecPosts[Len(ExecPosts)].resp.text) EXCEPT
            !.expectedNumMessages =
                expected_messages(call.msg_dict, call.num_messages)]
    ELSE Unbound

\* The last-seen status after the first k status responses: that of the most
\* recent HTTP 200 one among them, or the one the loop started with.
RECURSIVE LastSeen(_, _)
LastSeen(q, k) ==
    IF k = 0 THEN SeenAtStart
    ELSE IF q[k].resp.status_code = 200 THEN Parse(q[k].resp.text)
    ELSE LastSeen(q, k - 1)

\* Status query k is the event 2 (n - k) places before the end of net; the
\* poll loops put nothing but one sleep between two queries.
QueryAt(k) == Len(net) - 2 * (Len(StatusQueries) - k)

\* C13: in both poll loops a non-200 response with the body "App not
\* registered in results" does not end the loop and leaves the last-seen status
\* as it was; the next event is one sleep of the poll period and then another
\* EXECUTE_BATCH_STATUS query, however many such responses came before.
C13_NotRegisteredKeepsPolling ==
    LET q == StatusQueries
        n == Len(q)
    IN  Polling =>
            \A k \in 1..n : NotRegisteredYet(q[k].resp) =>
                /\ k = n => /\ pc = "poll" /\ ret = NoResult
                            /\ ber_status = LastSeen(q, n - 1)
                /\ k < n => /\ net[QueryAt(k)] = q[k]
                            /\ net[QueryAt(k) + 1] = Sleep(PollSleep)
                            /\ net[QueryAt(k) + 2] = q[k + 1]

C13_Witness ==
    /\ Polling /\ pc = "poll"
    /\ Len(StatusQueries) = 2
    /\ NotRegisteredYet(StatusQueries[1].resp)
    /\ NotRegisteredYet(StatusQueries[2].resp)
    /\ StatusQueries[1].resp.status_code # StatusQueries[2].resp.status_code

\* C14: in the waiting submission a non-200 status response whose body is not
\* "App not registered in results" ends the loop at once, and the call returns
\* the last-seen status: that of the most recent HTTP 200 status response or,
\* if there was none, that of the admission response with the client's
\* expectedNumMessages.
C14_PollFailureReturnsLastSeen ==
    LET q == StatusQueries
        n == Len(q)
    IN  (Waiting /\ n >= 1 /\ PollFailure(q[n].resp)) =>
            /\ pc = "done"
            /\ net[Len(net)] = q[n]
            /\ ret = Return(LastSeen(q, n - 1))

\* ... and the status returned may be an unfinished one.
C14_Witness ==
    /\ Waiting /\ pc = "done"
    /\ Len(StatusQueries) = 2
    /\ UnfinishedOk(StatusQueries[1].resp)
    /\ PollFailure(StatusQueries[2].resp)
    /\ ret = Return(Parse(StatusQueries[1].resp.text))
    /\ ~ret.val.finished

\* C15: query_result applies the same poll logic on its own: on every sequence
\* of responses on which its loop exits, a non-200 response with another body
\* than "App not registered in results" to the very first query included, the
\* call returns a BatchStatus, the last one seen, and does not fail without one.
C15_QueryResultReturnsStatus ==
    LET q == StatusQueries
        n == Len(q)
    IN  (call.fn = "query_result" /\ pc = "done") =>
            /\ ret.kind = "return"
            /\ ret.val \in ServerStatuses
            /\ FinishedOk(q[n].resp) => ret.val = Parse(q[n].resp.text)

\* Once an HTTP 200 status response has come, query_result does return the
\* last-seen status when its loop exits.
C15_ReturnsAfterSomeOk ==
    LET q == StatusQueries
        n == Len(q)
    IN  (/\ call.fn = "query_result" /\ pc = "done"
         /\ \E k \in 1..n : q[k].resp.status_code = 200)
            => ret = Return(LastSeen(q, n))

\* A non-200 admission response that is not the "No available hosts" failure
AdmissionFailure(r) == r.status_code # 200 /\ ~TextIs(r.text, NoHosts)

\* C16: during admission a non-200 response that is not the "No available
\* hosts" failure is never retried, that POST being the last EXECUTE_BATCH POST
\* of the call, and the call then proceeds instead of failing: the waiting
\* submission goes on to completion polling, the fire-and-forget one returns.
C16_AdmissionFailureProceeds ==
    LET e == ExecPosts
    IN  \A k \in 1..Len(e) : AdmissionFailure(e[k].resp) =>
            /\ k = Len(e)
            /\ Waiting => /\ pc \in {"poll", "done"}
                          /\ ret.kind # "raise"
                          /\ pc = "done" => Len(StatusQueries) >= 1
            /\ FireAndForget => pc = "done" /\ ret.kind = "return"

\* What does hold: the response is never retried, the fire-and-forget
\* submission returns, and the waiting one ends in ParseError on the plain-text
\* body without a single status query.
C16_AdmissionFailureEndsCall ==
    LET e == ExecPosts
    IN  \A k \in 1..Len(e) : AdmissionFailure(e[k].resp) =>
            /\ k = Len(e)
            /\ net[Len(net)] = e[k]
            /\ pc = "done"
            /\ Waiting => ret = Raise("ParseError") /\ StatusQueries = <<>>
            /\ FireAndForget => ret.kind = "return"

\* C17: every non-200 admission response whose body is exactly "No available
\* hosts" is retried whatever its status code: while retries are left the
\* client sleeps the backoff period and sends the request again.
C17_NoHostsRetriedUnderAnyCode ==
    LET e == ExecPosts
        limit == IF Waiting THEN num_retries ELSE num_retries_without_wait
    IN  (Waiting \/ FireAndForget) =>
            \A k \in 1..Len(e) :
                (/\ e[k].resp.status_code # 200
                 /\ TextIs(e[k].resp.text, NoHosts)
                 /\ k < limit)
                    => /\ k = Len(e) => /\ pc = "admit"
                                        /\ net[Len(net)] = Sleep(sleep_period_secs)
                       /\ k < Len(e) => BackoffBetweenPosts

\* Under HTTP 500 the body is retried as claimed.
C17_NoHostsRetriedUnder500 ==
    LET e == ExecPosts
        limit == IF Waiting THEN num_retries ELSE num_retries_without_wait
    IN  (Waiting \/ FireAndForget) =>
            \A k \in 1..Len(e) :
                (NoHostsFailure(e[k].resp) /\ k < limit)
                    => /\ k = Len(e) => /\ pc = "admit"
                                        /\ net[Len(net)] = Sleep(sleep_period_secs)
                       /\ k < Len(e) => BackoffBetweenPosts

\* The two responses that end a poll loop
Exiting(r) == FinishedOk(r) \/ PollFailure(r)

C19_StatusQueryBodyFixed ==
    LET q == StatusQueries
    IN  Waiting =>
            \A k \in 1..Len(q) :
                LET body == FillDefaults(q[k].payload, DefaultStatus)
                IN  /\ body.appId = Parse(ExecPosts[Len(ExecPosts)].resp.text).appId
                    /\ body.expectedNumMessages =
                            expected_messages(call.msg_dict, call.num_messages)
                    /\ q[k].payload = q[1].payload

C19_Witness ==
    /\ Waiting
    /\ Len(StatusQueries) = 2
    /\ UnfinishedOk(StatusQueries[1].resp)
    /\ Parse(StatusQueries[1].resp.text).appId
            # Parse(ExecPosts[Len(ExecPosts)].resp.text).appId
    /\ StatusQueries[2].payload = StatusQueries[1].payload

\* C20: the EXECUTE_BATCH payload of invoke_wasm is serialized before the
\* preload step: with or without a host list it holds exactly num_messages
\* messages, none with groupIdx or executedHost set, even when the preload was
\* padded to mpi_world_size; the preload and EXECUTE_BATCH carry the same appId.
C20_SubmissionUntouchedByPreload ==
    Waiting =>
        \A k \in 1..Len(ExecPosts) :
            LET p == ExecPosts[k].payload
            IN  /\ Len(p.messages) = call.num_messages
                /\ \A j \in 1..Len(p.messages) :
                        /\ "groupIdx" \notin DOMAIN p.messages[j]
                        /\ "executedHost" \notin DOMAIN p.messages[j]
                /\ \A h \in 1..Len(PreloadPosts) :
                        PreloadPosts[h].payload.appId = p.appId

C20_Witness ==
    /\ Waiting /\ call.host_list # None
    /\ Len(PreloadPosts) = 1 /\ Len(ExecPosts) >= 1
    /\ Len(PreloadPosts[1].payload.messages) > call.num_messages
    /\ Len(ExecPosts[1].payload.messages) = call.num_messages
    /\ \E j \in 1..Len(PreloadPosts[1].payload.messages) :
            "executedHost" \in DOMAIN PreloadPosts[1].payload.messages[j]

====
